---- MODULE Spec2Model ----
(***************************************************************************)
(* Model of smart-camera-iot.                                              *)
(*                                                                         *)
(*   src/server/server.py  the relay: ConnectionManager, the viewer        *)
(*                         handler websocket_viewer and the producer       *)
(*                         handler websocket_pi (specification Spec)       *)
(*   src/client/client.py  the producer loop send_frames                   *)
(*                         (specification ClientSpec)                      *)
(*                                                                         *)
(* The relay runs on one asyncio event loop: code between two awaits is    *)
(* one atomic step, and every await (accept, receive_text, send_text) is a *)
(* point where the other handler tasks and the peers may act.              *)
(***************************************************************************)
EXTENDS Integers, Sequences, FiniteSets, TLC

\* ------------------------------------------------------------------ bounds

\* Number of viewer connections that may ever be opened.
NumViewers == 2
\* Number of producer connections that may ever be opened.
NumProducers == 2
\* Number of messages the producer peers together put on the wire.
MaxMsgs == 2
\* Number of texts of one producer that may be on the wire, not yet received.
MaxInFlight == 1
MaxViewerTexts == 1

\* Clock ticks in one second of the producer's clock.
TicksPerSecond == 10
\* The producer's clock stops at this tick.
MaxTime == 34
MaxBoxes == 2
MaxCoord == 1
MaxDim == 2
MaxConf == 1

Viewers == 1..NumViewers
Producers == 1..NumProducers

\* -------------------------------------------------- the producer's settings

MAX_FPS == 10
\* asyncio.sleep(3) of both reconnect clauses, in seconds.
BackoffSeconds == 3

\* 1.0 / MAX_FPS, the sleep after a failed capture (0.1 s) and the backoff,
\* in ticks. The poll sleep (0.001 s) is shorter than a tick: it may end
\* within the tick it began in.
MinInterval == TicksPerSecond \div MAX_FPS
CaptureRetry == TicksPerSecond \div 10
Backoff == BackoffSeconds * TicksPerSecond
PollSleep == TicksPerSecond \div 1000

\* ------------------------------------------------------------ wire texts

\* A raw text is described by what json.loads makes of it: the type of the
\* parsed value, which of the two keys the value "contains" in the sense of
\* Python's `in`, and how the text is laid out (json.dumps writes ", " and
\* ": " separators, a hand-written or minified text need not).
FrameCompact == [t |-> "object", has |-> {"image", "boxes"}, fmt |-> "compact"]
FrameSpaced == [t |-> "object", has |-> {"image", "boxes"}, fmt |-> "spaced"]
NoBoxes == [t |-> "object", has |-> {"image"}, fmt |-> "spaced"]
Garbage == [t |-> "garbage", has |-> {}, fmt |-> "compact"]
StrBoth == [t |-> "string", has |-> {"image", "boxes"}, fmt |-> "spaced"]
ListBoth == [t |-> "list", has |-> {"image", "boxes"}, fmt |-> "spaced"]
ListNone == [t |-> "list", has |-> {}, fmt |-> "spaced"]
Number == [t |-> "number", has |-> {}, fmt |-> "spaced"]

\* The texts a producer peer may send.
Texts == {FrameCompact, FrameSpaced, NoBoxes, Garbage, StrBoth, ListBoth, ListNone, Number}

\* json.loads(message): the parsed value, or JSONDecodeError.
json_loads(message) ==
    IF message.t = "garbage"
    THEN [exc |-> "JSONDecodeError", t |-> "none", has |-> {}]
    ELSE [exc |-> "none", t |-> message.t, has |-> message.has]

\* json.dumps(data): the text json.dumps writes for a parsed value.
json_dumps(data) == [t |-> data.t, has |-> data.has, fmt |-> "spaced"]

\* `key in data`: key lookup in a dict, substring test on a str, element
\* test on a list, TypeError on a number (int is not iterable).
In(key, data) ==
    CASE data.t = "object" -> IF key \in data.has THEN "True" ELSE "False"
      [] data.t = "string" -> IF key \in data.has THEN "True" ELSE "False"
      [] data.t = "list" -> IF key \in data.has THEN "True" ELSE "False"
      [] OTHER -> "TypeError"

\* The inner try of websocket_pi: what becomes of a received text.
\*   "broadcast"  falls through to broadcast_to_viewers
\*   "continue"   back to receive_text
\*   "raise"      an exception other than JSONDecodeError leaves the loop
Validate(message) ==
    LET data == json_loads(message) IN
    IF data.exc = "JSONDecodeError" THEN "continue"
    ELSE IF In("image", data) = "TypeError" THEN "raise"
    ELSE IF In("image", data) = "False" THEN "continue"
    ELSE IF In("boxes", data) = "TypeError" THEN "raise"
    ELSE IF In("boxes", data) = "False" THEN "continue"
    ELSE "broadcast"

\* A Frame Message: a JSON object that carries both fields.
IsFrameMessage(message) ==
    /\ message.t = "object"
    /\ {"image", "boxes"} \subseteq message.has

\* --------------------------------------------------------------- helpers

Range(s) == {s[i] : i \in 1..Len(s)}

\* All orders in which a set can be listed.
Perms(S) ==
    {s \in [1..Cardinality(S) -> S] : \A i, j \in 1..Cardinality(S) : s[i] = s[j] => i = j}

\* ------------------------------------------------------------------ state

VARIABLES
    viewers,         \* manager.viewers
    pi_connections,  \* manager.pi_connections
    vconn,           \* per viewer connection: "none", "live", "stalled", "closed"
    vpc,             \* per viewer handler: "idle", "recv", "done", "cancelled"
    ppc,             \* per producer handler: "idle", "recv", "bcast", "done", "cancelled"
    popen,           \* per producer: the peer has not closed its end
    inbox,           \* per producer: sequence numbers of its texts on the wire
    nsent,           \* per producer: how many texts the peer has sent
    bc,              \* per producer: the locals of its broadcast_to_viewers call
    recvd,           \* per connection: the messages the relay has sent on it, in order
    vgot,            \* per viewer handler: how many texts its receive_text has returned
    cpc,             \* send_frames: where the producer loop stands
    now,             \* the producer's clock, in ticks
    last_frame_time, \* send_frames: last_frame_time, in ticks
    wake,            \* the tick at which the current asyncio.sleep ends
    ws,              \* the producer's connection: "none", "open", "closed"
    cap,             \* the capture device: "unopened", "open", "released"
    releases,        \* how many times cap.release() has run
    exc,             \* the exception that ended send_frames, or "none"
    relay,           \* whether the relay can be reached: "up", "down"
    lost,            \* the connection was lost in mid-stream and not yet replaced
    frame,           \* what became of the frame of the current iteration
    shape,           \* normalize_boxes: frame_shape, <<h, w>>
    boxes_xyxy,      \* normalize_boxes: the detector's boxes
    confs,           \* normalize_boxes: the detector's confidences
    norm_boxes,      \* normalize_boxes: the list it returns
    npc              \* normalize_boxes: "frame", "collect", "returned"

rvars == <<viewers, pi_connections, vconn, vpc, ppc, popen, inbox, nsent, bc, recvd, vgot>>

cvars == <<cpc, now, last_frame_time, wake, ws, cap, releases, exc, relay, lost, frame>>

nvars == <<shape, boxes_xyxy, confs, norm_boxes, npc>>

vars == <<rvars, cvars, nvars>>

RECURSIVE Sum(_, _)
Sum(f, S) == IF S = {} THEN 0 ELSE LET x == CHOOSE y \in S : TRUE IN f[x] + Sum(f, S \ {x})

\* The websocket of producer p among the connections of the relay: viewer
\* connections and producer connections are different WebSocket objects.
ConnOf(p) == NumViewers + p
Conns == Viewers \cup {ConnOf(p) : p \in Producers}

\* Whether the peer of connection c is gone, or has stopped reading.
Closed(c) == IF c \in Viewers THEN vconn[c] = "closed" ELSE ~popen[c - NumViewers]
Stalled(c) == c \in Viewers /\ vconn[c] = "stalled"

NoBroadcast ==
    [state |-> "none", message |-> Garbage, seq |-> 0, order |-> <<>>,
     todo |-> <<>>, ok |-> {}, dead |-> <<>>, live0 |-> {}]

RelayInit ==
    /\ viewers = {}
    /\ pi_connections = {}
    /\ vconn = [v \in Viewers |-> "none"]
    /\ vpc = [v \in Viewers |-> "idle"]
    /\ ppc = [p \in Producers |-> "idle"]
    /\ popen = [p \in Producers |-> TRUE]
    /\ inbox = [p \in Producers |-> <<>>]
    /\ nsent = [p \in Producers |-> 0]
    /\ bc = [p \in Producers |-> NoBroadcast]
    /\ recvd = [c \in Conns |-> <<>>]
    /\ vgot = [v \in Viewers |-> 0]

\* ------------------------------------------------------ ConnectionManager

\* connect_viewer: accept, then add to the viewer set.
connect_viewer(vs, v) == vs \cup {v}

\* disconnect_viewer: set.discard.
disconnect_viewer_inverted(vs, v) == vs \cap {v}
disconnect_viewer(vs, v) == vs \ {v}

\* connect_pi: accept, then add to the producer set.
connect_pi(ps, p) == ps \cup {p}

\* disconnect_pi: set.discard.
disconnect_pi(ps, p) == ps \ {p}

\* list(self.viewers): the orders in which the copy can list the set.
SnapshotStale(vs) == Perms({v \in Viewers : vpc[v] # "idle"})
SnapshotEveryone(vs) == Perms(vs \cup {ConnOf(p) : p \in pi_connections})
Snapshot(vs) == Perms(vs)

\* The text broadcast_to_viewers hands to send_text.
ForwardedReencoded(message) == json_dumps(json_loads(message))
Forwarded(message) == message

\* What a completed send_text adds to the viewer's stream.
DeliveredTwice(stream, m) == Append(Append(stream, m), m)
Delivered(stream, m) == Append(stream, m)

\* The rest of the iteration after the send to viewer v raised: the except
\* clause is inside the loop, so the loop goes on with the viewers after v.
AbortOnFailure(rest, v) == <<>>
RetryOnFailure(rest, v) == <<v>> \o rest
AfterFailure(rest, v) == rest

\* The second loop: discard every collected viewer.
PruneNothing(vs, dead) == vs
Prune(vs, dead) == vs \ Range(dead)

\* --------------------------------------------------------- viewer handler

\* websocket_viewer up to its first receive_text: the connection is accepted
\* and registered.
ViewerConnect(v) ==
    /\ vpc[v] = "idle"
    /\ vpc' = [vpc EXCEPT ![v] = "recv"]
    /\ vconn' = [vconn EXCEPT ![v] = "live"]
    /\ viewers' = connect_viewer(viewers, v)
    /\ UNCHANGED <<pi_connections, ppc, popen, inbox, nsent, bc, recvd, vgot>>
    /\ UNCHANGED <<cvars, nvars>>

\* The viewer peer stops reading: a send to it no longer completes.
ViewerStall(v) ==
    /\ vconn[v] = "live"
    /\ vconn' = [vconn EXCEPT ![v] = "stalled"]
    /\ UNCHANGED <<viewers, pi_connections, vpc, ppc, popen, inbox, nsent, bc, recvd, vgot>>
    /\ UNCHANGED <<cvars, nvars>>

\* The viewer peer reads again.
ViewerResume(v) ==
    /\ vconn[v] = "stalled"
    /\ vconn' = [vconn EXCEPT ![v] = "live"]
    /\ UNCHANGED <<viewers, pi_connections, vpc, ppc, popen, inbox, nsent, bc, recvd, vgot>>
    /\ UNCHANGED <<cvars, nvars>>

\* The viewer peer closes or loses its connection.
ViewerPeerClose(v) ==
    /\ vconn[v] \in {"live", "stalled"}
    /\ vconn' = [vconn EXCEPT ![v] = "closed"]
    /\ UNCHANGED <<viewers, pi_connections, vpc, ppc, popen, inbox, nsent, bc, recvd, vgot>>
    /\ UNCHANGED <<cvars, nvars>>

\* await websocket.receive_text() returns a text the viewer peer has sent:
\* the value is dropped and the loop awaits the next one.
ViewerReceive(v) ==
    /\ vpc[v] = "recv"
    /\ vconn[v] \in {"live", "stalled"}
    /\ Sum(vgot, Viewers) < MaxViewerTexts
    /\ vgot' = [vgot EXCEPT ![v] = @ + 1]
    /\ UNCHANGED <<viewers, pi_connections, vconn, vpc, ppc, popen, inbox, nsent, bc, recvd>>
    /\ UNCHANGED <<cvars, nvars>>

\* receive_text raises WebSocketDisconnect (the peer is gone) or another
\* Exception: both except clauses unregister and the handler returns.
ViewerDisconnect(v) ==
    /\ vpc[v] = "recv"
    /\ vconn[v] = "closed"
    /\ viewers' = disconnect_viewer(viewers, v)
    /\ vpc' = [vpc EXCEPT ![v] = "done"]
    /\ UNCHANGED <<pi_connections, vconn, ppc, popen, inbox, nsent, bc, recvd>>
    /\ vgot' = [vgot EXCEPT ![v] = 0]
    /\ UNCHANGED <<cvars, nvars>>

\* The handler task is cancelled while it awaits receive_text:
\* CancelledError is a BaseException, neither except clause catches it, and
\* the handler ends without calling disconnect_viewer. The server closes the
\* connection of a handler that has ended.
ViewerCancel(v) ==
    /\ vpc[v] = "recv"
    /\ vpc' = [vpc EXCEPT ![v] = "cancelled"]
    /\ vconn' = [vconn EXCEPT ![v] = "closed"]
    /\ UNCHANGED <<viewers, pi_connections, ppc, popen, inbox, nsent, bc, recvd>>
    /\ vgot' = [vgot EXCEPT ![v] = 0]
    /\ UNCHANGED <<cvars, nvars>>

\* ------------------------------------------------------- producer handler

\* websocket_pi up to its first receive_text.
ProducerConnect(p) ==
    /\ ppc[p] = "idle"
    /\ ppc' = [ppc EXCEPT ![p] = "recv"]
    /\ pi_connections' = connect_pi(pi_connections, p)
    /\ UNCHANGED <<viewers, vconn, vpc, popen, inbox, nsent, bc, recvd, vgot>>
    /\ UNCHANGED <<cvars, nvars>>

SentTotal == Sum(nsent, Producers)

\* The producer peer sends a text. What the text is shows only when the
\* handler receives it, so Receive draws it.
ProducerSend(p) ==
    /\ ppc[p] \in {"recv", "bcast"}
    /\ popen[p]
    /\ SentTotal < MaxMsgs
    /\ Len(inbox[p]) < MaxInFlight
    /\ nsent' = [nsent EXCEPT ![p] = @ + 1]
    /\ inbox' = [inbox EXCEPT ![p] = Append(@, nsent[p] + 1)]
    /\ UNCHANGED <<viewers, pi_connections, vconn, vpc, ppc, popen, bc, recvd, vgot>>
    /\ UNCHANGED <<cvars, nvars>>

\* The producer peer closes or loses its connection.
ProducerPeerClose(p) ==
    /\ ppc[p] \in {"recv", "bcast"}
    /\ popen[p]
    /\ popen' = [popen EXCEPT ![p] = FALSE]
    /\ UNCHANGED <<viewers, pi_connections, vconn, vpc, ppc, inbox, nsent, bc, recvd, vgot>>
    /\ UNCHANGED <<cvars, nvars>>

\* The state of broadcast_to_viewers when it reaches its first send_text:
\* dead is empty and the for loop holds a copy of the viewer set.
StartBroadcast(message, seq, order) ==
    [state |-> "running", message |-> message, seq |-> seq, order |-> order,
     todo |-> order, ok |-> {}, dead |-> <<>>, live0 |-> {v \in Range(order) : ~Closed(v)}]

\* What is kept of a call that has returned: which text of the producer it
\* carried, who was in the copy, in which order, who got the text and who
\* was collected.
Completed(b) == [b EXCEPT !.state = "complete", !.message = Garbage]

\* receive_text returns the next text; the inner try validates it.
Receive(p, message) ==
    /\ ppc[p] = "recv"
    /\ inbox[p] # <<>>
    /\ LET seq == Head(inbox[p])
           verdict == Validate(message)
       IN  /\ inbox' = [inbox EXCEPT ![p] = Tail(@)]
           /\ \/ /\ verdict = "continue"
                 /\ UNCHANGED <<pi_connections, ppc, bc>>
              \/ /\ verdict = "raise"
                 \* except Exception of the outer try
                 /\ pi_connections' = disconnect_pi(pi_connections, p)
                 /\ ppc' = [ppc EXCEPT ![p] = "done"]
                 /\ UNCHANGED bc
              \/ /\ verdict = "broadcast"
                 /\ viewers # {}
                 /\ \E order \in Snapshot(viewers) :
                        bc' = [bc EXCEPT ![p] = StartBroadcast(message, seq, order)]
                 /\ ppc' = [ppc EXCEPT ![p] = "bcast"]
                 /\ UNCHANGED pi_connections
              \/ /\ verdict = "broadcast"
                 /\ viewers = {}
                 \* both loops are empty: the call returns without an await
                 /\ bc' = [bc EXCEPT ![p] = Completed(StartBroadcast(message, seq, <<>>))]
                 /\ UNCHANGED <<pi_connections, ppc>>
    /\ UNCHANGED <<viewers, vconn, vpc, popen, nsent, recvd, vgot>>
    /\ UNCHANGED <<cvars, nvars>>

\* One await viewer.send_text(message) of the first loop completes: it
\* returns (the text is delivered) or raises (the viewer is collected). When
\* it was the last one, the second loop prunes and the handler is back at
\* receive_text, all before the next await.
SendStep(p) ==
    /\ ppc[p] = "bcast"
    /\ LET b == bc[p]
           v == Head(b.todo)
           failed == Closed(v)
           rest == IF failed THEN AfterFailure(Tail(b.todo), v) ELSE Tail(b.todo)
           dead == IF failed THEN Append(b.dead, v) ELSE b.dead
           ok == IF failed THEN b.ok ELSE b.ok \cup {v}
           m == [src |-> p, seq |-> b.seq, intact |-> Forwarded(b.message) = b.message]
       IN  /\ ~Stalled(v)
           /\ recvd' = IF failed THEN recvd
                       ELSE [recvd EXCEPT ![v] = Delivered(@, m)]
           /\ bc' = [bc EXCEPT ![p] =
                        IF rest = <<>>
                        THEN Completed([b EXCEPT !.todo = rest, !.ok = ok, !.dead = dead])
                        ELSE [b EXCEPT !.todo = rest, !.ok = ok, !.dead = dead]]
           /\ IF rest = <<>>
              THEN /\ viewers' = Prune(viewers, dead)
                   /\ ppc' = [ppc EXCEPT ![p] = "recv"]
              ELSE UNCHANGED <<viewers, ppc>>
    /\ UNCHANGED <<pi_connections, vconn, vpc, popen, inbox, nsent, vgot>>
    /\ UNCHANGED <<cvars, nvars>>

\* receive_text raises WebSocketDisconnect once every text the peer sent
\* before closing has been received.
DisconnectSeenAtOnce(p) == ppc[p] \in {"recv", "bcast"} /\ ~popen[p]
DisconnectSeen(p) == ppc[p] = "recv" /\ inbox[p] = <<>> /\ ~popen[p]

ProducerDisconnect(p) ==
    /\ DisconnectSeen(p)
    /\ pi_connections' = disconnect_pi(pi_connections, p)
    /\ ppc' = [ppc EXCEPT ![p] = "done"]
    /\ UNCHANGED <<viewers, vconn, vpc, popen, inbox, nsent, bc, recvd, vgot>>
    /\ UNCHANGED <<cvars, nvars>>

\* The handler task is cancelled at an await (receive_text or send_text):
\* CancelledError passes the except Exception clauses of broadcast_to_viewers
\* and of websocket_pi, so nothing is pruned and nothing is unregistered.
ProducerCancel(p) ==
    /\ ppc[p] \in {"recv", "bcast"}
    /\ ppc' = [ppc EXCEPT ![p] = "cancelled"]
    /\ bc' = [bc EXCEPT ![p] = IF @.state = "running"
                                THEN [NoBroadcast EXCEPT !.state = "aborted"] ELSE @]
    /\ UNCHANGED <<viewers, pi_connections, vconn, vpc, popen, inbox, nsent, recvd, vgot>>
    /\ UNCHANGED <<cvars, nvars>>

\* -------------------------------------------------------- normalize_boxes

\* Pixel coordinates, frame dimensions and confidences of the detections.
Coords == 0..MaxCoord
Dims == 1..MaxDim
ConfLevels == 0..MaxConf

\* a / b of two numbers, kept as the fraction it is.
Div(a, b) == [num |-> a, den |-> b]

\* bw = x2 - x1, bh = y2 - y1
ExtentClamped(lo, hi) == IF hi < lo THEN 0 ELSE hi - lo
Extent(lo, hi) == hi - lo

Min(a, b) == IF a < b THEN a ELSE b

\* normalize_boxes(frame_shape, boxes_xyxy, confs): zip pairs the boxes with
\* the confidences up to the shorter list; each pair gives
\* [nx, ny, nw, nh, conf].
normalize_boxes(frame_shape, boxes, cs) ==
    LET h == frame_shape[1]
        w == frame_shape[2]
        one(i) ==
            LET x1 == boxes[i][1]
                y1 == boxes[i][2]
                x2 == boxes[i][3]
                y2 == boxes[i][4]
                bw == Extent(x1, x2)
                bh == Extent(y1, y2)
            IN  <<Div(x1, w), Div(y1, h), Div(bw, w), Div(bh, h), cs[i]>>
    IN  [i \in 1..Min(Len(boxes), Len(cs)) |-> one(i)]

NormInit ==
    /\ shape = <<1, 1>>
    /\ boxes_xyxy = <<>>
    /\ confs = <<>>
    /\ norm_boxes = <<>>
    /\ npc = "frame"

\* A frame of h by w pixels has been captured and given to the detector.
Frame(h, w) ==
    /\ npc = "frame"
    /\ shape' = <<h, w>>
    /\ npc' = "collect"
    /\ UNCHANGED <<boxes_xyxy, confs, norm_boxes>>
    /\ UNCHANGED <<rvars, cvars>>

\* One pass of the loop over results.boxes: the box and its confidence are
\* appended to the two lists.
Detection(box, conf) ==
    /\ npc = "collect"
    /\ Len(boxes_xyxy) < MaxBoxes
    /\ boxes_xyxy' = Append(boxes_xyxy, box)
    /\ confs' = Append(confs, conf)
    /\ UNCHANGED <<shape, norm_boxes, npc>>
    /\ UNCHANGED <<rvars, cvars>>

\* norm_boxes = normalize_boxes(frame.shape, boxes_xyxy, confs)
Normalize ==
    /\ npc = "collect"
    /\ norm_boxes' = normalize_boxes(shape, boxes_xyxy, confs)
    /\ npc' = "returned"
    /\ UNCHANGED <<shape, boxes_xyxy, confs>>
    /\ UNCHANGED <<rvars, cvars>>

\* ---------------------------------------------------------- producer loop

ClientInit ==
    /\ cpc = "open_camera"
    /\ now = MinInterval
    /\ last_frame_time = 0
    /\ wake = 0
    /\ ws = "none"
    /\ cap = "unopened"
    /\ releases = 0
    /\ exc = "none"
    /\ relay = "up"
    /\ lost = FALSE
    /\ frame = "none"

\* How websockets.connect can end.
ConnectOutcomes == {"ok", "OSError", "InvalidURI", "InvalidHandshake"}

\* How ws.send can end: it returns, the connection was closed with an error
\* (ConnectionClosedError), the relay closed it with a normal close code
\* (ConnectionClosedOK), or the transport failed (OSError).
SendOutcomes == {"ok", "ConnectionClosedError", "ConnectionClosedOK", "OSError"}

\* How cv2.imencode can end: a buffer, success = False, or an exception.
EncodeOutcomes == {"ok", "failed", "EncoderError"}

\* The failures of the transport, as opposed to those of the camera, the
\* detector and the encoder.
TransportFailures == (ConnectOutcomes \cup SendOutcomes) \ {"ok"}

\* The places where send_frames is suspended in an await, the only places
\* where the event loop can run a signal handler.
AwaitStates == {"connect", "poll", "capture_retry", "send", "backoff"}

\* The two except clauses around the connection: ConnectionClosedError,
\* InvalidURI and OSError are caught, everything else propagates.
Caught(e) == e \in {"ConnectionClosedError", "InvalidURI", "OSError"}

\* An exception e raised inside the outer while loop: a caught one leads to
\* the backoff sleep, any other one leaves the loop through the finally
\* clause, which releases the capture device, and ends send_frames.
RaiseWithoutRelease(e) ==
    IF Caught(e)
    THEN /\ cpc' = "backoff"
         /\ wake' = now + Backoff
         /\ UNCHANGED <<cap, releases, exc>>
    ELSE /\ cpc' = "exited"
         /\ exc' = e
         /\ UNCHANGED <<wake, cap, releases>>
Raise(e) ==
    IF Caught(e)
    THEN /\ cpc' = "backoff"
         /\ wake' = now + Backoff
         /\ UNCHANGED <<cap, releases, exc>>
    ELSE /\ cpc' = "exited"
         /\ cap' = "released"
         /\ releases' = releases + 1
         /\ exc' = e
         /\ UNCHANGED wake

\* Time passes.
Tick ==
    /\ now < MaxTime
    /\ cpc \notin {"exited", "stopped"}
    /\ now' = now + 1
    /\ UNCHANGED <<cpc, last_frame_time, wake, ws, cap, releases, exc, relay, lost, frame>>
    /\ UNCHANGED <<rvars, nvars>>

\* The relay becomes unreachable, or reachable again.
RelayDown ==
    /\ relay = "up"
    /\ cpc \notin {"exited", "stopped"}
    /\ relay' = "down"
    /\ UNCHANGED <<cpc, now, last_frame_time, wake, ws, cap, releases, exc, lost, frame>>
    /\ UNCHANGED <<rvars, nvars>>

RelayUp ==
    /\ relay = "down"
    /\ cpc \notin {"exited", "stopped"}
    /\ relay' = "up"
    /\ UNCHANGED <<cpc, now, last_frame_time, wake, ws, cap, releases, exc, lost, frame>>
    /\ UNCHANGED <<rvars, nvars>>

\* cv2.VideoCapture(0) and the isOpened test: without a camera send_frames
\* returns at once.
OpenCamera(opened) ==
    /\ cpc = "open_camera"
    /\ IF opened
       THEN cpc' = "connect" /\ cap' = "open"
       ELSE cpc' = "exited" /\ UNCHANGED cap
    /\ UNCHANGED <<now, last_frame_time, wake, ws, releases, exc, relay, lost, frame>>
    /\ UNCHANGED <<rvars, nvars>>

\* websockets.connect: on success (the relay is reachable) the inner loop
\* starts, on failure the exception is raised inside the outer loop.
Connect(outcome) ==
    /\ cpc = "connect"
    /\ (outcome = "ok") = (relay = "up")
    /\ IF outcome = "ok"
       THEN /\ cpc' = "limit"
            /\ ws' = "open"
            /\ lost' = FALSE
            /\ UNCHANGED <<wake, cap, releases, exc>>
       ELSE /\ Raise(outcome)
            /\ ws' = "closed"
            /\ UNCHANGED lost
    /\ UNCHANGED <<now, last_frame_time, relay, frame>>
    /\ UNCHANGED <<rvars, nvars>>

\* now - last_frame_time < 1.0 / MAX_FPS
TooEarlyIntegerDivision(t, last) == t - last < 0
TooEarly(t, last) == t - last < MinInterval

\* The FPS limit at the top of the inner loop: too early, sleep 0.001 s and
\* look again; otherwise note the time and go on to the capture.
RateLimit ==
    /\ cpc = "limit"
    /\ IF TooEarly(now, last_frame_time)
       THEN /\ cpc' = "poll"
            /\ wake' = now + PollSleep
            /\ UNCHANGED <<last_frame_time, frame>>
       ELSE /\ cpc' = "capture"
            /\ last_frame_time' = now
            /\ frame' = "none"
            /\ UNCHANGED wake
    /\ UNCHANGED <<now, ws, cap, releases, exc, relay, lost>>
    /\ UNCHANGED <<rvars, nvars>>

\* asyncio.sleep(0.001) ends.
PollWake ==
    /\ cpc = "poll"
    /\ now >= wake
    /\ cpc' = "limit"
    /\ UNCHANGED <<now, last_frame_time, wake, ws, cap, releases, exc, relay, lost, frame>>
    /\ UNCHANGED <<rvars, nvars>>

\* cap.read(): a frame, or none (sleep 0.1 s and start the iteration again).
Capture(ret) ==
    /\ cpc = "capture"
    /\ IF ret
       THEN cpc' = "detect" /\ frame' = "captured" /\ UNCHANGED wake
       ELSE cpc' = "capture_retry" /\ frame' = "capture_failed" /\ wake' = now + CaptureRetry
    /\ UNCHANGED <<now, last_frame_time, ws, cap, releases, exc, relay, lost>>
    /\ UNCHANGED <<rvars, nvars>>

\* asyncio.sleep(0.1) ends.
CaptureRetryWake ==
    /\ cpc = "capture_retry"
    /\ now >= wake
    /\ cpc' = "limit"
    /\ UNCHANGED <<now, last_frame_time, wake, ws, cap, releases, exc, relay, lost, frame>>
    /\ UNCHANGED <<rvars, nvars>>

\* model(frame, ...) and normalize_boxes: the boxes, or an exception of the
\* detector.
Detect(ok) ==
    /\ cpc = "detect"
    /\ IF ok
       THEN cpc' = "encode" /\ UNCHANGED <<wake, ws, cap, releases, exc>>
       ELSE Raise("DetectorError") /\ ws' = "closed"
    /\ UNCHANGED <<now, last_frame_time, relay, lost, frame>>
    /\ UNCHANGED <<rvars, nvars>>

\* if not success: continue -- where the loop goes after cv2.imencode.
AfterEncodeNoSkip(success) == "send"
AfterEncode(success) == IF success THEN "send" ELSE "limit"

\* cv2.imencode: a buffer, success = False (skip the frame), or an exception.
Encode(outcome) ==
    /\ cpc = "encode"
    /\ IF outcome = "EncoderError"
       THEN Raise(outcome) /\ ws' = "closed" /\ UNCHANGED frame
       ELSE /\ cpc' = AfterEncode(outcome = "ok")
            /\ frame' = IF outcome = "ok" THEN "encoded" ELSE "encode_failed"
            /\ UNCHANGED <<wake, ws, cap, releases, exc>>
    /\ UNCHANGED <<now, last_frame_time, relay, lost>>
    /\ UNCHANGED <<rvars, nvars>>

\* await ws.send(payload_str): the send can return only while the relay is
\* there; a failure means the connection is lost in mid-stream.
Send(outcome) ==
    /\ cpc = "send"
    /\ outcome = "ok" => relay = "up"
    /\ IF outcome = "ok"
       THEN /\ cpc' = "limit"
            /\ frame' = "sent"
            /\ UNCHANGED <<wake, ws, cap, releases, exc, lost>>
       ELSE /\ Raise(outcome)
            /\ ws' = "closed"
            /\ lost' = TRUE
            /\ UNCHANGED frame
    /\ UNCHANGED <<now, last_frame_time, relay>>
    /\ UNCHANGED <<rvars, nvars>>

\* asyncio.sleep(3) ends: the outer loop connects again.
BackoffWake ==
    /\ cpc = "backoff"
    /\ now >= wake
    /\ cpc' = "connect"
    /\ UNCHANGED <<now, last_frame_time, wake, ws, cap, releases, exc, relay, lost, frame>>
    /\ UNCHANGED <<rvars, nvars>>

\* SIGINT or SIGTERM: main registered loop.stop as the handler. The loop
\* stops at the await send_frames is suspended in, run_until_complete raises
\* RuntimeError, main closes the loop and the process ends. Nothing cancels
\* or resumes send_frames, so its finally clause is not run by the loop; it
\* runs only if the interpreter, on its way out, closes the abandoned
\* coroutine and the close gets through to the finally clause.
Signal(finalized) ==
    /\ cpc \in AwaitStates
    /\ cpc' = "stopped"
    /\ IF finalized
       THEN cap' = "released" /\ releases' = releases + 1
       ELSE UNCHANGED <<cap, releases>>
    /\ UNCHANGED <<now, last_frame_time, wake, ws, exc, relay, lost, frame>>
    /\ UNCHANGED <<rvars, nvars>>

\* The steps of send_frames itself, as opposed to those of the clock, the
\* relay and the operator.
ClientStep ==
    \/ \E opened \in BOOLEAN : OpenCamera(opened)
    \/ \E outcome \in ConnectOutcomes : Connect(outcome)
    \/ RateLimit
    \/ PollWake
    \/ \E ret \in BOOLEAN : Capture(ret)
    \/ CaptureRetryWake
    \/ \E ok \in BOOLEAN : Detect(ok)
    \/ \E outcome \in EncodeOutcomes : Encode(outcome)
    \/ \E outcome \in SendOutcomes : Send(outcome)
    \/ BackoffWake

ClientNext ==
    \/ Tick
    \/ RelayDown
    \/ RelayUp
    \/ \E opened \in BOOLEAN : OpenCamera(opened)
    \/ \E outcome \in ConnectOutcomes : Connect(outcome)
    \/ RateLimit
    \/ PollWake
    \/ \E ret \in BOOLEAN : Capture(ret)
    \/ CaptureRetryWake
    \/ \E ok \in BOOLEAN : Detect(ok)
    \/ \E outcome \in EncodeOutcomes : Encode(outcome)
    \/ \E outcome \in SendOutcomes : Send(outcome)
    \/ BackoffWake
    \/ \E finalized \in BOOLEAN : Signal(finalized)

Init == RelayInit /\ ClientInit /\ NormInit

ClientSpec == Init /\ [][ClientNext]_vars

\* The event loop runs send_frames whenever its await can complete, and
\* time passes. Nothing obliges the relay to come back or a signal to arrive.
ClientFairSpec ==
    /\ ClientSpec
    /\ WF_vars(ClientStep)
    /\ WF_vars(Tick)

NormNext ==
    \/ \E h \in Dims, w \in Dims : Frame(h, w)
    \/ \E box \in Coords \X Coords \X Coords \X Coords, conf \in ConfLevels :
           Detection(box, conf)
    \/ Normalize

NormSpec == Init /\ [][NormNext]_vars

\* ------------------------------------------------------- the relay's spec

ViewerStep(v) == ViewerConnect(v) \/ ViewerReceive(v) \/ ViewerDisconnect(v)

ProducerStep(p) ==
    \/ ProducerConnect(p)
    \/ \E message \in Texts : Receive(p, message)
    \/ SendStep(p)
    \/ ProducerDisconnect(p)

Next ==
    \/ \E v \in Viewers : ViewerConnect(v)
    \/ \E v \in Viewers : ViewerStall(v)
    \/ \E v \in Viewers : ViewerResume(v)
    \/ \E v \in Viewers : ViewerPeerClose(v)
    \/ \E v \in Viewers : ViewerReceive(v)
    \/ \E v \in Viewers : ViewerDisconnect(v)
    \/ \E v \in Viewers : ViewerCancel(v)
    \/ \E p \in Producers : ProducerConnect(p)
    \/ \E p \in Producers : ProducerSend(p)
    \/ \E p \in Producers : ProducerPeerClose(p)
    \/ \E p \in Producers, message \in Texts : Receive(p, message)
    \/ \E p \in Producers : SendStep(p)
    \/ \E p \in Producers : ProducerDisconnect(p)
    \/ \E p \in Producers : ProducerCancel(p)

Spec == Init /\ [][Next]_vars

\* The event loop resumes every handler whose await can complete, also one
\* whose await can complete only now and then (a send to a viewer that reads
\* only from time to time). Nothing obliges a peer to act.
FairSpec ==
    /\ Spec
    /\ \A v \in Viewers : SF_vars(ViewerStep(v))
    /\ \A p \in Producers : SF_vars(ProducerStep(p))

\* ------------------------------------------------------------------ claims

\* The viewers in the copy a broadcast iterates over.
Snap(b) == Range(b.order)

\* The viewers a broadcast has made a send attempt to.
Attempted(b) == b.ok \cup Range(b.dead)

\* A step in which the producer handler p enters broadcast_to_viewers.
Enters(p) == ppc[p] = "recv" /\ bc'[p] # bc[p]

\* A step in which the broadcast of producer p returns.
Returns(p) == bc[p].state = "running" /\ bc'[p].state = "complete"

\* C1: a broadcast attempts a send of the received text, unmodified, to
\* exactly the viewers that were in the viewer set when it took its copy:
\* the copy is the viewer set of that moment, it does not change while the
\* sends are awaited, only viewers of a running broadcast's copy receive
\* anything, every attempt goes to a viewer of the copy, and at the return
\* every viewer of the copy has been attempted.
C1_SendsToSnapshot ==
    /\ [](\A p \in Producers :
            /\ Attempted(bc[p]) \subseteq Snap(bc[p])
            /\ bc[p].state = "complete" => Attempted(bc[p]) = Snap(bc[p]))
    /\ [](\A v \in Viewers : \A i \in 1..Len(recvd[v]) : recvd[v][i].intact)
    /\ [][\A p \in Producers :
            /\ Enters(p) => Snap(bc'[p]) = viewers
            /\ bc[p].state = "running" /\ bc'[p].state # "aborted"
                   => bc'[p].order = bc[p].order]_vars
    /\ [][\A v \in Viewers :
            recvd'[v] # recvd[v]
                => \E p \in Producers : bc[p].state = "running" /\ v \in Snap(bc[p])]_vars

\* C1 witness: a broadcast has delivered to one viewer of its copy while
\* another viewer of the copy, not yet attempted, has been unregistered.
C1_Witness ==
    \E p \in Producers :
        /\ bc[p].state = "running"
        /\ bc[p].ok # {}
        /\ \E v \in Range(bc[p].todo) : v \notin viewers

\* C2: when a broadcast in which a send failed has returned, every viewer
\* of its copy that was not collected as failed has received the message.
C2_Isolation ==
    \A p \in Producers :
        bc[p].state = "complete" /\ bc[p].dead # <<>>
            => \A v \in Snap(bc[p]) \ Range(bc[p].dead) :
                   \E i \in 1..Len(recvd[v]) :
                       recvd[v][i].src = p /\ recvd[v][i].seq = bc[p].seq

\* C2 witness: the send to the first viewer of the iteration failed and the
\* second viewer received the message.
C2_Witness ==
    \E p \in Producers :
        /\ bc[p].state = "complete"
        /\ Len(bc[p].order) = 2
        /\ bc[p].order[1] \in Range(bc[p].dead)
        /\ bc[p].order[2] \in bc[p].ok
        /\ recvd[bc[p].order[2]] # <<>>

\* C3 (as claimed): a broadcast that has made a send attempt carries a
\* Frame Message, a JSON object with both fields.
C3_OnlyFramesFannedOut ==
    \A p \in Producers :
        bc[p].state = "running" /\ Attempted(bc[p]) # {}
            => IsFrameMessage(bc[p].message)

\* C4 (as claimed): a receive that starts no broadcast (the text was
\* dropped) leaves the producer handler in its receive loop and registered.
C4_MalformedKeepsHandler ==
    [][\A p \in Producers :
          Len(inbox'[p]) < Len(inbox[p]) /\ bc'[p] = bc[p]
              => ppc'[p] = "recv" /\ p \in pi_connections']_vars

\* C5: the step in which a broadcast returns removes from the viewer set
\* exactly the viewers whose send failed in it, so a viewer registered in
\* the meantime stays; and the failed viewers stay absent afterwards.
C5_PrunesOnlyFailed ==
    /\ [][\A p \in Producers :
            Returns(p) => viewers' = viewers \ Range(bc'[p].dead)]_vars
    /\ [](\A p \in Producers :
            bc[p].state = "complete" => Range(bc[p].dead) \cap viewers = {})

\* C5 witness: a broadcast has returned with a failed viewer, and a viewer
\* that was not in its copy is registered.
C5_Witness ==
    \E p \in Producers :
        /\ bc[p].state = "complete"
        /\ bc[p].dead # <<>>
        /\ viewers \ Snap(bc[p]) # {}

\* No viewer twice in the list.
NoDuplicates(s) == \A i, j \in 1..Len(s) : s[i] = s[j] => i = j

\* C6 (as claimed): at most one attempt per viewer of the copy, and when
\* the broadcast has returned the number of deliveries equals the number of
\* viewers of the copy whose connection was open when the copy was taken.
C6_DeliveriesEqualLiveAtSnapshot ==
    \A p \in Producers :
        /\ NoDuplicates(bc[p].dead)
        /\ bc[p].ok \cap Range(bc[p].dead) = {}
        /\ Cardinality(bc[p].ok) + Len(bc[p].dead) <= Len(bc[p].order)
        /\ bc[p].state = "complete"
               => Cardinality(bc[p].ok) = Cardinality(bc[p].live0)

\* C6 (amended): at most one attempt per viewer of the copy and no more
\* attempts than viewers in it; when the broadcast has returned, every
\* viewer of the copy was attempted once, the deliveries went to viewers
\* whose connection was open when the copy was taken, and so are at most as
\* many as those.
C6_AtMostOneAttempt ==
    \A p \in Producers :
        /\ NoDuplicates(bc[p].dead)
        /\ bc[p].ok \cap Range(bc[p].dead) = {}
        /\ Cardinality(bc[p].ok) + Len(bc[p].dead) <= Len(bc[p].order)
        /\ bc[p].state = "complete"
               => /\ Cardinality(bc[p].ok) + Len(bc[p].dead) = Len(bc[p].order)
                  /\ bc[p].ok \subseteq bc[p].live0
                  /\ Cardinality(bc[p].ok) <= Cardinality(bc[p].live0)

\* C6 witness: a broadcast has returned with fewer deliveries than viewers
\* that were open when the copy was taken.
C6_Witness ==
    \E p \in Producers :
        /\ bc[p].state = "complete"
        /\ bc[p].ok # {}
        /\ Cardinality(bc[p].ok) < Cardinality(bc[p].live0)

C9_UnregisteredOnExit ==
    /\ \A v \in Viewers : vpc[v] \in {"done", "cancelled"} => v \notin viewers
    /\ \A p \in Producers : ppc[p] \in {"done", "cancelled"} => p \notin pi_connections

\* C7 (as claimed): a broadcast never waits for ever on one viewer: the
\* producer handler eventually leaves the broadcast and is back at its
\* receive, and a viewer of the copy that is reading and still to be served
\* is eventually served, unless it stops reading or the handler is cancelled.
C7_SlowViewerNeverStalls ==
    /\ \A p \in Producers : (ppc[p] = "bcast") ~> (ppc[p] # "bcast")
    /\ \A p \in Producers : \A v \in Viewers :
           (bc[p].state = "running" /\ v \in Range(bc[p].todo) /\ vconn[v] = "live")
               ~> (bc[p].state # "running" \/ v \notin Range(bc[p].todo) \/ vconn[v] # "live")

\* C10 (as claimed): no failure of the transport ends the producer loop:
\* send_frames is never ended by a failed connect or a failed send.
C10_TransportFailureNeverFatal ==
    cpc = "exited" => exc \notin TransportFailures



\* C16: the relay never sends anything on a producer's connection, and the
\* step in which a viewer handler receives a text of its viewer sends
\* nothing, starts nothing and leaves the viewer set and the producer set
\* as they are.
C16_ViewerTextsDropped ==
    /\ [](\A p \in Producers : recvd[ConnOf(p)] = <<>>)
    /\ [][\A v \in Viewers :
            vgot'[v] > vgot[v] =>
                /\ viewers' = viewers
                /\ pi_connections' = pi_connections
                /\ recvd' = recvd
                /\ bc' = bc
                /\ vpc' = vpc
                /\ ppc' = ppc]_vars

\* C16 witness: a registered viewer that has been served frames has sent a
\* text, which its handler has received, while a producer is registered.
C16_Witness ==
    \E v \in Viewers :
        /\ vgot[v] > 0
        /\ v \in viewers
        /\ recvd[v] # <<>>
        /\ pi_connections # {}

\* C17: a step that unregisters a connection (a handler that leaves through
\* one of its except clauses, the pruning at the end of a broadcast) takes
\* exactly that connection out of its set, which is no change when it is not
\* there, and leaves the other set alone.
C17_UnregisterIdempotent ==
    [][/\ \A v \in Viewers :
            (vpc[v] = "recv" /\ vpc'[v] = "done")
                => (viewers' = viewers \ {v} /\ pi_connections' = pi_connections)
       /\ \A p \in Producers :
            (ppc[p] = "recv" /\ ppc'[p] = "done")
                => (pi_connections' = pi_connections \ {p} /\ viewers' = viewers)
       /\ \A p \in Producers :
            Returns(p)
                => (viewers' = viewers \ Range(bc'[p].dead)
                    /\ pi_connections' = pi_connections)]_vars

\* C17 witness: a viewer has been pruned by a broadcast and its handler has
\* left through an except clause (whichever came second found it gone),
\* while another viewer is still registered.
C17_Witness ==
    \E v \in Viewers, p \in Producers :
        /\ vpc[v] = "done"
        /\ bc[p].state = "complete"
        /\ v \in Range(bc[p].dead)
        /\ viewers \ {v} # {}

\* C19: a connection enters the viewer set only when its handler starts,
\* which happens once, so one that has been removed stays out; the copy a
\* broadcast takes holds only viewers registered at that moment, and a
\* broadcast sends only to viewers of its copy.
C19_RemovedStaysOut ==
    /\ [][\A v \in Viewers : (v \notin viewers /\ v \in viewers') => vpc[v] = "idle"]_vars
    /\ [][\A v \in Viewers : vpc[v] # "idle" => vpc'[v] # "idle"]_vars
    /\ [][\A p \in Producers : Enters(p) => Snap(bc'[p]) \subseteq viewers]_vars
    /\ [](\A p \in Producers : Attempted(bc[p]) \subseteq Snap(bc[p]))

\* C19 witness: a viewer has been pruned by one broadcast while its handler
\* still awaits receive_text, and another broadcast is running over a copy
\* that does not hold it.
C19_Witness ==
    \E v \in Viewers, p \in Producers, q \in Producers :
        /\ bc[p].state = "complete"
        /\ v \in Range(bc[p].dead)
        /\ vpc[v] = "recv"
        /\ v \notin viewers
        /\ bc[q].state = "running"
        /\ v \notin Snap(bc[q])

\* C20: a producer leaves the producer set only while its handler awaits
\* receive_text, never during its broadcast: the close of the producer's
\* end changes nothing in the handler, a handler in a broadcast is still
\* registered, and a broadcast of a producer that has gone has, at its
\* return, attempted every viewer of its copy.
C20_DisconnectSeenAtReceive ==
    /\ [](\A p \in Producers : ppc[p] = "bcast" => p \in pi_connections)
    /\ [][\A p \in Producers :
            (p \in pi_connections /\ p \notin pi_connections')
                => (ppc[p] = "recv" /\ bc[p].state # "running")]_vars
    /\ [][\A p \in Producers :
            (popen[p] /\ ~popen'[p]) => (bc'[p] = bc[p] /\ ppc'[p] = ppc[p])]_vars
    /\ [](\A p \in Producers :
            (bc[p].state = "complete" /\ ~popen[p])
                => Attempted(bc[p]) = Snap(bc[p]))

\* C20 witness: the producer's end is closed and its broadcast, which has
\* delivered to one viewer, still has a viewer to serve.
C20_Witness ==
    \E p \in Producers :
        /\ ppc[p] = "bcast"
        /\ ~popen[p]
        /\ bc[p].ok # {}
        /\ bc[p].todo # <<>>

\* ------------------------------------------------- claims of the producer

\* C11: after a connection is lost in mid-stream, a new connect attempt
\* comes only out of the backoff sleep, which always lasts the same Backoff
\* ticks from the moment of the failure, and unless the relay is out of
\* reach at some later moment (or the operator stops the producer, or the
\* clock of the model runs out) the producer gets a connection again and is
\* back in the streaming loop.
C11_ReconnectsAfterLoss ==
    /\ [][(cpc # "backoff" /\ cpc' = "backoff") => wake' = now + Backoff]_vars
    /\ [][(cpc = "backoff" /\ cpc' \notin {"backoff", "stopped"})
              => (cpc' = "connect" /\ now >= wake)]_vars
    /\ [][(lost /\ cpc # "connect" /\ cpc' = "connect") => cpc = "backoff"]_vars
    /\ lost ~> (~lost \/ relay = "down" \/ cpc = "stopped" \/ now = MaxTime)

\* C12: once a shutdown signal has stopped the producer, the capture device
\* it had opened is released.
C12_StoppedMeansReleased == cpc = "stopped" => cap = "released"

\* C13: when send_frames has exited and the capture device had been opened,
\* the device is released, and cap.release() has run exactly once; it never
\* runs twice.
C13_ReleasedOnceOnExit ==
    /\ releases <= 1
    /\ (cpc = "exited" /\ cap # "unopened") => (cap = "released" /\ releases = 1)

C13_Witness ==
    /\ cpc = "exited"
    /\ exc \in {"DetectorError", "EncoderError"}
    /\ cap = "released"
    /\ releases = 1

\* C14: a frame that could not be captured or could not be encoded is never
\* sent: while such a frame is the frame of the current iteration the
\* connection stays open, the producer is in the streaming loop on its way
\* to the next rate-limit check, and the step that finds the failure leaves
\* the connection as it is.
C14_FailedFrameSkipped ==
    /\ [](frame \in {"capture_failed", "encode_failed"}
             => (ws = "open" /\ cpc \in {"capture_retry", "limit", "poll", "stopped"}))
    /\ [][(cpc \in {"capture", "encode"} /\ frame' \in {"capture_failed", "encode_failed"})
             => (ws' = ws /\ cpc' \in {"capture_retry", "limit"})]_vars
    /\ [][(cpc = "send" /\ frame' = "sent") => frame = "encoded"]_vars

C14_Witness ==
    /\ frame = "encode_failed"
    /\ cpc = "limit"
    /\ ws = "open"

\* C15: the time of a capture attempt is at least MinInterval ticks after
\* the time of the attempt before it, whatever became of that attempt, and
\* last_frame_time changes only in the step that goes on to the capture,
\* which sets it to the time of that step.
C15_RateLimited ==
    [][/\ last_frame_time' # last_frame_time
           => (cpc = "limit" /\ cpc' = "capture" /\ last_frame_time' = now)
       /\ (cpc # "capture" /\ cpc' = "capture")
           => (last_frame_time' = now /\ now - last_frame_time >= MinInterval)]_vars

C15_Witness ==
    /\ cpc = "poll"
    /\ frame = "encode_failed"
    /\ last_frame_time = now

====
